---- MODULE Spec2Model ----
(***************************************************************************)
(* Model of the metacmd parameter helpers of usql:                         *)
(*   Option.ParseParams   (format-option scanner)                          *)
(*   Params.Get / Params.GetOptional (parameter cursor)                    *)
(* A Go string is a sequence of one-character strings; a Go string slice   *)
(* is a sequence of such strings; a Go map is a function on its key set.   *)
(***************************************************************************)
EXTENDS Integers, Sequences, FiniteSets, TLC

\* ------------------------------------------------------------------ bounds
\* most tokens in one ParseParams call
MaxTokens == 3
\* most characters, summed over the tokens of one ParseParams call
MaxChars == 5
\* most characters of the token the cursor decodes for GetOptional
MaxValLen == 5

\* characters the tokens of a ParseParams call are made of
Chars == {"(", ")", "=", "a"}
\* characters the decoded token of GetOptional is made of
OptChars == {"-", "a"}
\* the default keys a caller passes: one a list key can equal, one it cannot
DefaultKeys == {<<"a">>, <<"p", "i", "p", "e">>}
\* errors the injected decoder can return
DecodeErrors == {"ErrUnterminatedQuotedString", "ErrInvalidQuotedString"}

VARIABLES
    opt,            \* the Option: Quit, Exec, Params (+ ParamsNil), Crosstab, Watch
    params,         \* ParseParams argument: the caller's token slice
    defaultKey,     \* ParseParams argument
    formatOptions,  \* ParseParams local
    i,              \* ParseParams loop index (1-based)
    err,            \* ParseParams return value
    pc,             \* position in ParseParams / GetOptional
    opt0,           \* history: the Option as it was when ParseParams was called
    scan,           \* history: one record per token the loop has examined
    next,           \* what the cursor's decoder returns for the next token
    ret             \* GetOptional return values

vars == <<opt, params, defaultKey, formatOptions, i, err, pc, opt0, scan, next, ret>>

\* ------------------------------------------------------------- Go helpers
Nil == "nil"
ErrInvalidFormatOption == "ErrInvalidFormatOption"
EmptyMap == [x \in {} |-> <<>>]

\* strings of exactly n characters over alphabet A
Strs(A, n) == [1..n -> A]

\* m[k] = v on a Go map
\* variant of Put: the write replaces the map
PutOnly(m, k, v) == [x \in {k} |-> v]
Put(m, k, v) == [x \in (DOMAIN m) \cup {k} |-> IF x = k THEN v ELSE m[x]]

\* strings.Join(elems, sep)
RECURSIVE JoinFrom(_, _, _)
JoinFrom(elems, sep, k) ==
    IF k > Len(elems) THEN <<>>
    ELSE sep \o elems[k] \o JoinFrom(elems, sep, k + 1)
Join(elems, sep) ==
    IF Len(elems) = 0 THEN <<>>
    ELSE IF Len(elems) = 1 THEN elems[1]
    ELSE elems[1] \o JoinFrom(elems, sep, 2)

\* strings.Index(s, c) for a one-character c, 1-based; 0 when absent
RECURSIVE IndexFrom(_, _, _)
IndexFrom(s, c, k) ==
    IF k > Len(s) THEN 0
    ELSE IF s[k] = c THEN k
    ELSE IndexFrom(s, c, k + 1)

\* strings.SplitN(s, sep, 2) for a one-character sep
\* variant of SplitN: always two parts, the second empty without a separator
SplitNKeepGoing(s, sep) ==
    IF IndexFrom(s, sep, 1) = 0 THEN <<s, <<>>>>
    ELSE <<SubSeq(s, 1, IndexFrom(s, sep, 1) - 1),
           SubSeq(s, IndexFrom(s, sep, 1) + 1, Len(s))>>
SplitN(s, sep) ==
    IF IndexFrom(s, sep, 1) = 0 THEN <<s>>
    ELSE <<SubSeq(s, 1, IndexFrom(s, sep, 1) - 1),
           SubSeq(s, IndexFrom(s, sep, 1) + 1, Len(s))>>

\* strings.TrimLeft(s, c) for a one-character cutset
\* variant of TrimLeft: strings.TrimPrefix, one leading character at most
TrimPrefixOnce(s, c) ==
    IF Len(s) > 0 /\ s[1] = c THEN SubSeq(s, 2, Len(s)) ELSE s
RECURSIVE TrimLeft(_, _)
TrimLeft(s, c) ==
    IF Len(s) > 0 /\ s[1] = c THEN TrimLeft(SubSeq(s, 2, Len(s)), c) ELSE s

\* strings.TrimRight(s, c) for a one-character cutset
RECURSIVE TrimRight(_, _)
TrimRight(s, c) ==
    IF Len(s) > 0 /\ s[Len(s)] = c THEN TrimRight(SubSeq(s, 1, Len(s) - 1), c) ELSE s

\* len(parts) == 1, the test that rejects a list token
\* variant of Rejects: a second "=" in the token is rejected too
RejectsUnlessOneEq(parts) ==
    IF Len(parts) = 1 THEN TRUE ELSE IndexFrom(parts[2], "=", 1) # 0
Rejects(parts) == Len(parts) = 1

\* ------------------------------------------------------------------ inputs
\* a token slice is chosen by the lengths of its tokens and their characters:
\* at most MaxTokens tokens and at most MaxChars characters in all
RECURSIVE SumTo(_, _)
SumTo(lens, k) == IF k = 0 THEN 0 ELSE lens[k] + SumTo(lens, k - 1)
Cut(flat, lens) ==
    [k \in 1..Len(lens) |-> SubSeq(flat, SumTo(lens, k - 1) + 1, SumTo(lens, k))]
IsInput(ts) ==
    \E n \in 0..MaxTokens :
        \E lens \in [1..n -> 0..MaxChars] :
            /\ SumTo(lens, n) <= MaxChars
            /\ \E flat \in Strs(Chars, SumTo(lens, n)) : ts = Cut(flat, lens)

\* the Options ParseParams is called on: the zero Option, and one a runner
\* has already filled in
ZeroOption ==
    [Quit |-> FALSE, Exec |-> "ExecNone", ParamsNil |-> TRUE, Params |-> EmptyMap,
     Crosstab |-> <<>>, Watch |-> 0]
UsedOption ==
    [Quit |-> TRUE, Exec |-> "ExecCrosstab", ParamsNil |-> FALSE,
     Params |-> [x \in {<<"a">>, <<"a", "a", ")">>} |-> <<"a", ")">>],
     Crosstab |-> << <<"a">>, <<"(">> >>, Watch |-> 2]
Options == {ZeroOption, UsedOption}

NoNext == [ok |-> FALSE, v |-> <<>>, err |-> Nil]
NoRet == [isFlag |-> FALSE, v |-> <<>>, err |-> Nil]

\* --------------------------------------------------------- Option.ParseParams
Init ==
    /\ opt \in Options
    /\ IsInput(params)
    /\ defaultKey \in DefaultKeys
    /\ formatOptions = FALSE
    /\ i = 0
    /\ err = Nil
    /\ pc = "call"
    /\ opt0 = opt
    /\ scan = <<>>
    /\ next = NoNext
    /\ ret = NoRet

Logged(act) == Append(scan, [idx |-> i, inList |-> formatOptions, act |-> act])

\* lines 133-136: make the map when it is nil, start the loop outside a list
\* variant of ParseParamsEntry: the map is made anew on every call
ParseParamsEntryFresh ==
    /\ pc = "call"
    /\ opt' = [opt EXCEPT !.ParamsNil = FALSE, !.Params = EmptyMap]
    /\ formatOptions' = FALSE
    /\ i' = 1
    /\ pc' = "loop"
    /\ UNCHANGED <<params, defaultKey, err, opt0, scan, next, ret>>
ParseParamsEntry ==
    /\ pc = "call"
    /\ opt' = IF opt.ParamsNil
              THEN [opt EXCEPT !.ParamsNil = FALSE, !.Params = EmptyMap]
              ELSE opt
    /\ formatOptions' = FALSE
    /\ i' = 1
    /\ pc' = "loop"
    /\ UNCHANGED <<params, defaultKey, err, opt0, scan, next, ret>>

\* lines 138-140: an empty token is skipped
LoopSkip ==
    /\ pc = "loop"
    /\ i <= Len(params)
    /\ Len(params[i]) = 0
    /\ i' = i + 1
    /\ scan' = Logged("skip")
    /\ UNCHANGED <<opt, params, defaultKey, formatOptions, err, pc, opt0, next, ret>>

\* lines 141-147: outside a list, a token without a leading "(" is free-form
\* variant of LoopFreeForm: joins params, not params[i:]
LoopFreeFormAll ==
    /\ pc = "loop"
    /\ i <= Len(params)
    /\ Len(params[i]) # 0
    /\ ~formatOptions
    /\ params[i][1] # "("
    /\ opt' = [opt EXCEPT !.Params = Put(opt.Params, defaultKey, Join(params, <<" ">>))]
    /\ err' = Nil
    /\ pc' = "done"
    /\ scan' = Logged("free")
    /\ UNCHANGED <<params, defaultKey, formatOptions, i, opt0, next, ret>>
\* variant of LoopFreeForm: an entry already under defaultKey is kept
LoopFreeFormKeep ==
    /\ pc = "loop"
    /\ i <= Len(params)
    /\ Len(params[i]) # 0
    /\ ~formatOptions
    /\ params[i][1] # "("
    /\ opt' = IF defaultKey \in DOMAIN opt.Params THEN opt
              ELSE [opt EXCEPT !.Params =
                      Put(opt.Params, defaultKey,
                          Join(SubSeq(params, i, Len(params)), <<" ">>))]
    /\ err' = Nil
    /\ pc' = "done"
    /\ scan' = Logged("free")
    /\ UNCHANGED <<params, defaultKey, formatOptions, i, opt0, next, ret>>
LoopFreeForm ==
    /\ pc = "loop"
    /\ i <= Len(params)
    /\ Len(params[i]) # 0
    /\ ~formatOptions
    /\ params[i][1] # "("
    /\ opt' = [opt EXCEPT !.Params =
                 Put(opt.Params, defaultKey,
                     Join(SubSeq(params, i, Len(params)), <<" ">>))]
    /\ err' = Nil
    /\ pc' = "done"
    /\ scan' = Logged("free")
    /\ UNCHANGED <<params, defaultKey, formatOptions, i, opt0, next, ret>>

\* lines 141-143, 149-152: a list token without "=" fails the call
LoopInvalid ==
    /\ pc = "loop"
    /\ i <= Len(params)
    /\ Len(params[i]) # 0
    /\ formatOptions \/ params[i][1] = "("
    /\ Rejects(SplitN(params[i], "="))
    /\ formatOptions' = TRUE
    /\ err' = ErrInvalidFormatOption
    /\ pc' = "done"
    /\ scan' = Logged("invalid")
    /\ UNCHANGED <<opt, params, defaultKey, i, opt0, next, ret>>

\* lines 141-143, 149-156: a list token is stored as a pair; ")" ends the list
\* variant of LoopPair: a closing ")" does not end the list
LoopPairNoClose ==
    /\ pc = "loop"
    /\ i <= Len(params)
    /\ Len(params[i]) # 0
    /\ formatOptions \/ params[i][1] = "("
    /\ ~Rejects(SplitN(params[i], "="))
    /\ opt' = [opt EXCEPT !.Params =
                 Put(opt.Params,
                     TrimLeft(SplitN(params[i], "=")[1], "("),
                     TrimRight(SplitN(params[i], "=")[2], ")"))]
    /\ formatOptions' = TRUE
    /\ i' = i + 1
    /\ scan' = Logged("pair")
    /\ UNCHANGED <<params, defaultKey, err, pc, opt0, next, ret>>
LoopPair ==
    /\ pc = "loop"
    /\ i <= Len(params)
    /\ Len(params[i]) # 0
    /\ formatOptions \/ params[i][1] = "("
    /\ ~Rejects(SplitN(params[i], "="))
    /\ opt' = [opt EXCEPT !.Params =
                 Put(opt.Params,
                     TrimLeft(SplitN(params[i], "=")[1], "("),
                     TrimRight(SplitN(params[i], "=")[2], ")"))]
    /\ formatOptions' = (params[i][Len(params[i])] # ")")
    /\ i' = i + 1
    /\ scan' = Logged("pair")
    /\ UNCHANGED <<params, defaultKey, err, pc, opt0, next, ret>>

\* line 158: the tokens are exhausted
\* variant of LoopEnd: an unclosed list is an error
LoopEndClosedOnly ==
    /\ pc = "loop"
    /\ i > Len(params)
    /\ err' = IF formatOptions THEN ErrInvalidFormatOption ELSE Nil
    /\ pc' = "done"
    /\ UNCHANGED <<opt, params, defaultKey, formatOptions, i, opt0, scan, next, ret>>
LoopEnd ==
    /\ pc = "loop"
    /\ i > Len(params)
    /\ err' = Nil
    /\ pc' = "done"
    /\ UNCHANGED <<opt, params, defaultKey, formatOptions, i, opt0, scan, next, ret>>

Next ==
    \/ ParseParamsEntry
    \/ LoopSkip
    \/ LoopFreeForm
    \/ LoopInvalid
    \/ LoopPair
    \/ LoopEnd

Spec == Init /\ [][Next]_vars

\* ------------------------------------------------- Params.Get / GetOptional
\* the decoder's return for the next token: (ok, v, err)
Decoded ==
    { [ok |-> Len(v) > 0, v |-> v, err |-> Nil]
        : v \in UNION { Strs(OptChars, k) : k \in 0..MaxValLen } }
    \cup
    { [ok |-> FALSE, v |-> v, err |-> e]
        : v \in UNION { Strs(OptChars, k) : k \in 0..1 }, e \in DecodeErrors }

InitOpt ==
    /\ opt = ZeroOption
    /\ params = <<>>
    /\ defaultKey = <<>>
    /\ formatOptions = FALSE
    /\ i = 0
    /\ err = Nil
    /\ pc = "call"
    /\ opt0 = opt
    /\ scan = <<>>
    /\ next \in Decoded
    /\ ret = NoRet

\* lines 175-185: Get drops the value when the decoder fails
Get == IF next.err # Nil THEN [v |-> <<>>, err |-> next.err]
       ELSE [v |-> next.v, err |-> Nil]

\* lines 200-209
\* variant of GetOptional: the "-" prefix is not stripped
GetOptionalKeepDash ==
    /\ pc = "call"
    /\ ret' = IF Get.err # Nil
              THEN [isFlag |-> FALSE, v |-> <<>>, err |-> Get.err]
              ELSE IF Len(Get.v) > 0 /\ Get.v[1] = "-"
              THEN [isFlag |-> TRUE, v |-> Get.v, err |-> Nil]
              ELSE [isFlag |-> FALSE, v |-> Get.v, err |-> Nil]
    /\ pc' = "done"
    /\ UNCHANGED <<opt, params, defaultKey, formatOptions, i, err, opt0, scan, next>>
GetOptional ==
    /\ pc = "call"
    /\ ret' = IF Get.err # Nil
              THEN [isFlag |-> FALSE, v |-> <<>>, err |-> Get.err]
              ELSE IF Len(Get.v) > 0 /\ Get.v[1] = "-"
              THEN [isFlag |-> TRUE, v |-> SubSeq(Get.v, 2, Len(Get.v)), err |-> Nil]
              ELSE [isFlag |-> FALSE, v |-> Get.v, err |-> Nil]
    /\ pc' = "done"
    /\ UNCHANGED <<opt, params, defaultKey, formatOptions, i, err, opt0, scan, next>>

NextOpt == GetOptional

SpecOpt == InitOpt /\ [][NextOpt]_vars

\* ----------------------------------------------- vocabulary of the properties
\* The expected results below are stated from the positions of the characters
\* in the caller's tokens, not through the operators the actions use.
Params0 == opt0.Params
Last(s) == s[Len(s)]
TokIdx == {k \in 1..Len(params) : params[k] # <<>>}
HasTok == TokIdx # {}
FirstTok == CHOOSE k \in TokIdx : \A j \in TokIdx : k <= j
CountEq(t) == Cardinality({j \in 1..Len(t) : t[j] = "="})
HasEq(t) == \E j \in 1..Len(t) : t[j] = "="
EqAt(t) == CHOOSE p \in 1..Len(t) : t[p] = "=" /\ \A j \in 1..(p - 1) : t[j] # "="
LeadParens(t) ==
    CHOOSE n \in 0..(EqAt(t) - 1) :
        /\ \A j \in 1..n : t[j] = "("
        /\ n = EqAt(t) - 1 \/ t[n + 1] # "("
TrailParens(t) ==
    CHOOSE n \in 0..(Len(t) - EqAt(t)) :
        /\ \A j \in (Len(t) - n + 1)..Len(t) : t[j] = ")"
        /\ n = Len(t) - EqAt(t) \/ t[Len(t) - n] # ")"
PairKey(t) == SubSeq(t, LeadParens(t) + 1, EqAt(t) - 1)
PairVal(t) == SubSeq(t, EqAt(t) + 1, Len(t) - TrailParens(t))
\* the map m0 after the pairs of the non-empty tokens 1..lim, last write wins
PairToks(lim) == {j \in TokIdx : j <= lim}
LastWith(k, lim) ==
    CHOOSE j \in PairToks(lim) :
        /\ PairKey(params[j]) = k
        /\ \A h \in PairToks(lim) : PairKey(params[h]) = k => h <= j
PairsOver(m0, lim) ==
    [k \in (DOMAIN m0) \cup {PairKey(params[j]) : j \in PairToks(lim)} |->
        IF \E j \in PairToks(lim) : PairKey(params[j]) = k
        THEN PairVal(params[LastWith(k, lim)])
        ELSE m0[k]]
RECURSIVE SpaceJoined(_)
SpaceJoined(ts) ==
    IF Len(ts) = 0 THEN <<>>
    ELSE IF Len(ts) = 1 THEN ts[1]
    ELSE SpaceJoined(SubSeq(ts, 1, Len(ts) - 1)) \o <<" ">> \o Last(ts)
TokensFrom(k) == SubSeq(params, k, Len(params))
\* m0 with key k set to v and every other entry as it was
IsPut(m, m0, k, v) ==
    /\ DOMAIN m = (DOMAIN m0) \cup {k}
    /\ m[k] = v
    /\ \A x \in (DOMAIN m0) \ {k} : m[x] = m0[x]
Acts == {scan[n].act : n \in 1..Len(scan)}
FreeFormCase == HasTok /\ params[FirstTok][1] # "("
\* the mode the scan is in when it reaches position k: inside a list exactly
\* when a non-empty token precedes k and the nearest one does not end in ")"
PrevTok(k) == CHOOSE j \in TokIdx : j < k /\ \A h \in TokIdx : h < k => h <= j
InListAt(k) ==
    /\ \E j \in TokIdx : j < k
    /\ Last(params[PrevTok(k)]) # ")"

\* ------------------------------------------------------------------ C1
\* C1 as stated: when the first non-empty token does not start with "(",
\* ParseParams returns no error and Params[defaultKey] is ALL tokens of the
\* input joined with single spaces, no other key being written.
C1_AllTokensJoined ==
    (pc = "done" /\ FreeFormCase) =>
        /\ err = Nil
        /\ IsPut(opt.Params, Params0, defaultKey, SpaceJoined(params))

\* C1 amended: when the first non-empty token does not start with "(",
\* ParseParams returns no error and Params[defaultKey] is that token and all
\* tokens after it joined with single spaces (the empty tokens before it are
\* left out); no other key is written and no token is split at "=".
C1_TailJoined ==
    (pc = "done" /\ FreeFormCase) =>
        /\ err = Nil
        /\ IsPut(opt.Params, Params0, defaultKey, SpaceJoined(TokensFrom(FirstTok)))

C1_Witness ==
    /\ pc = "done"
    /\ FreeFormCase
    /\ FirstTok = 1
    /\ Len(params) = 2
    /\ HasEq(params[1])
    /\ opt.Params[defaultKey] = params[1] \o <<" ">> \o params[2]

\* ------------------------------------------------------------------ C2
OneList ==
    /\ HasTok
    /\ params[FirstTok][1] = "("
    /\ \A j \in TokIdx : HasEq(params[j])
    /\ params[Len(params)] # <<>>
    /\ Last(params[Len(params)]) = ")"
ClosedOnlyAtEnd ==
    \A j \in TokIdx : j < Len(params) => Last(params[j]) # ")"

\* C2 as stated (read generously: every leading "(" of a key and every
\* trailing ")" of a value stripped): a token sequence whose first non-empty
\* token starts with "(", whose non-empty tokens all contain "=" and whose
\* last token ends with ")", parsed into an empty Params, gives no error,
\* exactly the pairs of the tokens (last write wins) and no free-form entry.
C2_AnyClosedList ==
    (pc = "done" /\ opt0.ParamsNil /\ OneList) =>
        /\ err = Nil
        /\ opt.Params = PairsOver(EmptyMap, Len(params))
        /\ "free" \notin Acts

\* C2 amended: the same, provided no token before the last one ends with ")"
\* (such a token closes the list early), the key being the left side of the
\* first "=" with all its leading "(" stripped and the value the right side
\* with all its trailing ")" stripped.
C2_ListClosedAtEnd ==
    (pc = "done" /\ opt0.ParamsNil /\ OneList /\ ClosedOnlyAtEnd) =>
        /\ err = Nil
        /\ opt.Params = PairsOver(EmptyMap, Len(params))
        /\ "free" \notin Acts

C2_Witness ==
    /\ pc = "done"
    /\ opt0.ParamsNil
    /\ OneList
    /\ ClosedOnlyAtEnd
    /\ Len(params) = 2
    /\ params[1] # <<>>
    /\ PairKey(params[1]) = PairKey(params[2])
    /\ PairVal(params[1]) # PairVal(params[2])
    /\ opt.Params = [k \in {PairKey(params[2])} |-> PairVal(params[2])]

\* ------------------------------------------------------------------ C3
ListActs == {"pair", "invalid"}

\* C3 as stated: a token scanned inside a list fails the call exactly when it
\* does not contain exactly one "=".
C3_ExactlyOneEq ==
    \A n \in 1..Len(scan) :
        scan[n].act \in ListActs =>
            (scan[n].act = "invalid" <=> CountEq(params[scan[n].idx]) # 1)

\* C3 amended: a token scanned inside a list (the opening and the closing
\* token included) fails the call with InvalidFormatOption exactly when it
\* contains no "="; a token with one or more "=" never fails (it is split at
\* the first one), and ParseParams returns no other error.
C3_NoEq ==
    /\ \A n \in 1..Len(scan) :
           scan[n].act \in ListActs =>
               (scan[n].act = "invalid" <=> CountEq(params[scan[n].idx]) = 0)
    /\ err \in {Nil, ErrInvalidFormatOption}
    /\ err = ErrInvalidFormatOption <=> "invalid" \in Acts
    /\ "invalid" \in Acts => pc = "done" /\ scan[Len(scan)].act = "invalid"

C3_Witness ==
    /\ pc = "done"
    /\ err = Nil
    /\ Len(scan) = 2
    /\ scan[1].act = "pair"
    /\ CountEq(params[1]) = 2
    /\ scan[2].act = "pair"

\* ------------------------------------------------------------------ C4
\* C4 as stated: the single token "()" gives no error and an entry whose key
\* is the empty string.
C4_EmptyKeyStored ==
    (pc = "done" /\ params = << <<"(", ")">> >>) =>
        /\ err = Nil
        /\ <<>> \in DOMAIN opt.Params

\* C4 amended: the single token "()" enters list mode and, having no "=",
\* fails with InvalidFormatOption; nothing is stored in Params.
C4_EmptyListRejected ==
    (pc = "done" /\ params = << <<"(", ")">> >>) =>
        /\ err = ErrInvalidFormatOption
        /\ opt.Params = Params0
        /\ Acts = {"invalid"}

C4_Witness ==
    /\ pc = "done"
    /\ params = << <<"(", ")">> >>
    /\ err = ErrInvalidFormatOption
    /\ opt.Params = EmptyMap

\* ------------------------------------------------------------------ C5
\* C5: when ParseParams fails at token f, Params is what it was before the
\* call overwritten by the pairs of the tokens before f (last write wins):
\* the pairs already written stay, untouched entries are unchanged, and
\* nothing is written from token f or later.
C5_NoRollback ==
    (pc = "done" /\ err = ErrInvalidFormatOption) =>
        /\ scan # <<>>
        /\ opt.Params = PairsOver(Params0, scan[Len(scan)].idx - 1)

C5_Witness ==
    /\ pc = "done"
    /\ err = ErrInvalidFormatOption
    /\ ~opt0.ParamsNil
    /\ Len(scan) = 2
    /\ scan[1].act = "pair"
    /\ PairKey(params[1]) \in DOMAIN Params0
    /\ opt.Params[PairKey(params[1])] # Params0[PairKey(params[1])]
    /\ \E k \in DOMAIN Params0 : k # PairKey(params[1]) /\ opt.Params[k] = Params0[k]

\* ------------------------------------------------------------------ C6
FreeFormSet == scan # <<>> /\ Last(scan).act = "free"

\* C6 as stated: after a successful call on an empty Params in which the
\* free-form entry was set, no pair written from a list token has defaultKey
\* as its key.
C6_DefaultKeyNotAPair ==
    (pc = "done" /\ err = Nil /\ opt0.ParamsNil /\ FreeFormSet) =>
        \A n \in 1..Len(scan) :
            scan[n].act = "pair" => PairKey(params[scan[n].idx]) # defaultKey

\* C6 amended: after a successful call on an empty Params in which the
\* free-form entry was set at token f, Params[defaultKey] is the free-form
\* value (tokens f.. joined with single spaces) even when a list pair before
\* f used defaultKey as its key (that pair is overwritten), and every pair
\* stored under another key is kept as written.
C6_DefaultOverwritesPair ==
    (pc = "done" /\ err = Nil /\ opt0.ParamsNil /\ FreeFormSet) =>
        IsPut(opt.Params, PairsOver(EmptyMap, Last(scan).idx - 1), defaultKey,
              SpaceJoined(TokensFrom(Last(scan).idx)))

C6_Witness ==
    /\ pc = "done"
    /\ err = Nil
    /\ opt0.ParamsNil
    /\ FreeFormSet
    /\ Len(scan) = 2
    /\ scan[1].act = "pair"
    /\ PairKey(params[1]) = defaultKey
    /\ DOMAIN opt.Params = {defaultKey}
    /\ opt.Params[defaultKey] = params[2]

\* ------------------------------------------------------------------ C7
\* C7: GetOptional returns (true, v without its first character) when the
\* decoded token v starts with "-", (false, v) otherwise, the empty v
\* included; when the decoder fails it returns (false, "", that error).
C7_GetOptional ==
    pc = "done" =>
        IF next.err = Nil
        THEN /\ ret.err = Nil
             /\ IF next.v # <<>> /\ Head(next.v) = "-"
                THEN ret.isFlag /\ <<"-">> \o ret.v = next.v
                ELSE ~ret.isFlag /\ ret.v = next.v
        ELSE ret = [isFlag |-> FALSE, v |-> <<>>, err |-> next.err]

C7_Witness ==
    /\ pc = "done"
    /\ ret.isFlag
    /\ ret.err = Nil
    /\ ret.v = <<"a", "-", "a">>
    /\ next.v = <<"-", "a", "-", "a">>

\* ------------------------------------------------------------------ C8
\* C8: the scan examines the tokens in order, starting outside a list; an
\* empty token is skipped and leaves the mode alone; the mode at a token is
\* "inside a list" exactly when the nearest non-empty token before it does
\* not end with ")"; a non-empty token met outside a list opens a list when
\* it starts with "(" and otherwise triggers free-form mode, which joins it
\* and all later tokens into Params[defaultKey], ends the call without error
\* and examines no later token.
C8_Modes ==
    /\ \A n \in 1..Len(scan) :
        /\ scan[n].idx = n
        /\ scan[n].inList = InListAt(n)
        /\ scan[n].act = "skip" <=> params[n] = <<>>
        /\ scan[n].act = "free" <=>
               (params[n] # <<>> /\ ~InListAt(n) /\ params[n][1] # "(")
        /\ scan[n].act \in ListActs <=>
               (params[n] # <<>> /\ (InListAt(n) \/ params[n][1] = "("))
        /\ scan[n].act = "free" =>
               /\ n = Len(scan)
               /\ pc = "done"
               /\ err = Nil
               /\ opt.Params[defaultKey] = SpaceJoined(TokensFrom(n))
    /\ pc = "loop" => i = Len(scan) + 1 /\ formatOptions = InListAt(i)
    /\ pc = "call" => scan = <<>>
    /\ (pc = "done" /\ err = Nil /\ "free" \notin Acts) => Len(scan) = Len(params)

C8_Witness ==
    /\ pc = "done"
    /\ Len(params) = 3
    /\ Len(scan) = 2
    /\ scan[1].act = "pair"
    /\ ~scan[1].inList
    /\ Last(params[1]) = ")"
    /\ scan[2].act = "free"
    /\ ~scan[2].inList
    /\ params[3] = <<"(">>

\* ------------------------------------------------------------------ C9
\* C9: no step of ParseParams changes the Option's Quit, Exec, Crosstab or
\* Watch or the caller's token slice, and no step removes a key from Params.
C9_Frame ==
    [][ /\ opt'.Quit = opt.Quit
        /\ opt'.Exec = opt.Exec
        /\ opt'.Crosstab = opt.Crosstab
        /\ opt'.Watch = opt.Watch
        /\ params' = params
        /\ defaultKey' = defaultKey
        /\ (DOMAIN opt.Params) \subseteq (DOMAIN opt'.Params) ]_vars

C9_Witness ==
    /\ pc = "done"
    /\ opt0 = UsedOption
    /\ err = ErrInvalidFormatOption
    /\ opt.Params # Params0
    /\ (DOMAIN Params0) \subseteq (DOMAIN opt.Params)
    /\ opt.Crosstab = UsedOption.Crosstab

\* ------------------------------------------------------------------ C10
OpenList ==
    /\ HasTok
    /\ params[FirstTok][1] = "("
    /\ \A j \in TokIdx : HasEq(params[j]) /\ Last(params[j]) # ")"

\* C10: when the first non-empty token starts with "(", every non-empty
\* token contains "=" and none ends with ")", ParseParams reaches the end of
\* the input still inside the list and returns no error; every pair is
\* stored (last write wins) and no free-form entry is written.
C10_UnclosedListAccepted ==
    (pc = "done" /\ OpenList) =>
        /\ err = Nil
        /\ formatOptions
        /\ i = Len(params) + 1
        /\ opt.Params = PairsOver(Params0, Len(params))
        /\ "free" \notin Acts

C10_Witness ==
    /\ pc = "done"
    /\ OpenList
    /\ opt0.ParamsNil
    /\ Len(params) = 3
    /\ params[2] = <<>>
    /\ Cardinality(DOMAIN opt.Params) = 2
    /\ err = Nil

====
